---- MODULE Spec2Model ----
(***************************************************************************)
(* Model of streamlit_csv.py: the loader load_data_from_csv (column-name   *)
(* normalisation, coalescing, BMI, string coercion, date parsing and       *)
(* event-type mapping) and the dashboard script that filters the loaded    *)
(* table and aggregates it.                                                *)
(*                                                                         *)
(* Strings are TLA+ strings; a character is a string of length one.        *)
(* A table cell is a tagged tuple: NA, <<"str", s>>, <<"num", n>>,         *)
(* <<"ts", day>>, <<"float", n, d>> (the quotient n/d) or <<"inf">>.       *)
(***************************************************************************)
EXTENDS Integers, Sequences, FiniteSets, TLC

VARIABLES
    pc,             \* position of the script / of the function under study
    raw_cols,       \* df.columns as built from the payload
    df_columns,     \* df.columns after line 138
    raw_et,         \* one raw event_type string
    et,             \* et of line 176 for that string
    normalized,     \* normalized of line 177 for that string
    response,       \* what the API call of line 110 produces
    data,           \* the table load_data_from_csv returns (line 183)
    errors,         \* the st.error messages emitted so far
    dr,             \* value of the "Date Range" widget (line 224)
    browser,        \* value of the "Browser" select box (line 233)
    tab,            \* value of the "Navigation" radio (line 293)
    window,         \* <<start_d, end_d>> of lines 227-231
    df,             \* the filtered view of line 240
    cur_counts,     \* line 264
    conversion_pct, \* line 267
    charts,         \* the tables the selected tab computes
    renormalized    \* lines 118-180 applied to the table they returned

stringVars == <<raw_cols, df_columns, raw_et, et, normalized>>
runVars == <<dr, browser, tab, window, df, cur_counts, conversion_pct, charts>>
vars == <<pc, stringVars, response, data, errors, runVars, renormalized>>

----------------------------------------------------------------------------
(* Bounds *)

MaxCols == 3        \* longest list of raw column names
MaxPad == 2         \* most whitespace characters on either side of a string
MaxRows == 2        \* most records in the events array of a payload

----------------------------------------------------------------------------
(* Python str helpers *)

Ch(s, i) == SubSeq(s, i, i)

LowerAlpha == "abcdefghijklmnopqrstuvwxyz"
UpperAlpha == "ABCDEFGHIJKLMNOPQRSTUVWXYZ"
DigitChars == "0123456789"
Whitespace == {" ", "\t", "\n"}

IndexIn(c, s) ==
    IF \E i \in 1..Len(s) : Ch(s, i) = c
    THEN CHOOSE i \in 1..Len(s) : Ch(s, i) = c
    ELSE 0

upper_char(c) ==
    LET i == IndexIn(c, LowerAlpha) IN IF i > 0 THEN Ch(UpperAlpha, i) ELSE c

lower_char(c) ==
    LET i == IndexIn(c, UpperAlpha) IN IF i > 0 THEN Ch(LowerAlpha, i) ELSE c

RECURSIVE upper(_)
upper(s) ==
    IF s = "" THEN "" ELSE upper_char(Ch(s, 1)) \o upper(SubSeq(s, 2, Len(s)))

RECURSIVE lower(_)
lower(s) ==
    IF s = "" THEN "" ELSE lower_char(Ch(s, 1)) \o lower(SubSeq(s, 2, Len(s)))

RECURSIVE lstrip(_)
lstrip(s) ==
    IF s # "" /\ Ch(s, 1) \in Whitespace THEN lstrip(SubSeq(s, 2, Len(s))) ELSE s

RECURSIVE rstrip(_)
rstrip(s) ==
    IF s # "" /\ Ch(s, Len(s)) \in Whitespace
    THEN rstrip(SubSeq(s, 1, Len(s) - 1))
    ELSE s

strip(s) == rstrip(lstrip(s))

\* str(n) of a non-negative integer, as the f-strings of lines 127 and 135 print it
RECURSIVE IntToStr(_)
IntToStr(n) ==
    IF n < 10 THEN Ch(DigitChars, n + 1)
    ELSE IntToStr(n \div 10) \o Ch(DigitChars, (n % 10) + 1)

----------------------------------------------------------------------------
(* Column-name normalisation, lines 122-138 *)

EmptyDict == [k \in {} |-> 0]

RECURSIVE make_unique_loop(_, _, _, _)
make_unique_loop(cols, i, seen, out) ==
    IF i > Len(cols) THEN out
    ELSE LET c == strip(cols[i]) IN
         IF c \notin DOMAIN seen
         THEN make_unique_loop(cols, i + 1, (c :> 1) @@ seen, Append(out, c))
         ELSE LET n == seen[c] + 1 IN
              make_unique_loop(cols, i + 1, [seen EXCEPT ![c] = n],
                               Append(out, c \o "_" \o IntToStr(n)))

make_unique(cols) == make_unique_loop(cols, 1, EmptyDict, <<>>)

RECURSIVE lower_unique_loop(_, _, _, _)
lower_unique_loop(cols, i, seen, out) ==
    IF i > Len(cols) THEN out
    ELSE LET lc == strip(lower(cols[i])) IN
         IF lc \notin DOMAIN seen
         THEN lower_unique_loop(cols, i + 1, (lc :> 1) @@ seen, Append(out, lc))
         ELSE LET n == seen[lc] + 1 IN
              lower_unique_loop(cols, i + 1, [seen EXCEPT ![lc] = n],
                                Append(out, lc \o "_" \o IntToStr(n)))

lower_unique(cols) == lower_unique_loop(cols, 1, EmptyDict, <<>>)

\* line 138: df.columns = lower_unique(make_unique(df.columns))
rename_columns(cols) == lower_unique(make_unique(cols))

----------------------------------------------------------------------------
(* Event-type mapping of one value, lines 172-178 *)

mapping == ("IN_BOUND_CROSSOVER" :> "crossover") @@ ("CARE_PROGRAM_CLICKED" :> "link_click")

\* the lookup without the upper-casing
map_event_type_case_sensitive(e) ==
    IF e \in DOMAIN mapping THEN mapping[e] ELSE lower(e)

\* line 177 on a non-null stripped string: .str.upper().map(mapping).fillna(et.str.lower())
map_event_type(e) ==
    IF upper(e) \in DOMAIN mapping THEN mapping[upper(e)] ELSE lower(e)

----------------------------------------------------------------------------
(* Table cells and frames *)

\* the sequences over S of length at most n
RECURSIVE SeqsUpTo(_, _)
SeqsUpTo(S, n) ==
    IF n = 0 THEN {<<>>}
    ELSE LET shorter == SeqsUpTo(S, n - 1) IN
         shorter \cup {Append(q, x) : q \in {r \in shorter : Len(r) = n - 1}, x \in S}

NA == <<"na">>
Unset == <<"unset">>
Str(s) == <<"str", s>>
Num(n) == <<"num", n>>
Ts(d) == <<"ts", d>>
Float(n, d) == <<"float", n, d>>
Inf == <<"inf">>

isna(v) == v = NA

\* a function over 1..n as the tuple of its values
AsTuple(f) == f \o <<>>

\* the last value of a tuple of successive values; the tuple is evaluated left
\* to right, as the statements it stands for execute
Last(q) == q[Len(q)]

InSeq(x, q) == \E i \in 1..Len(q) : q[i] = x

\* pd.DataFrame(): no columns, no rows
EmptyFrame == [cols |-> <<>>, rows |-> <<>>]

\* DataFrame.empty: any axis of length 0
empty(t) == Len(t.cols) = 0 \/ Len(t.rows) = 0

RECURSIVE add_keys(_, _, _)
add_keys(cols, rec, i) ==
    IF i > Len(rec) THEN cols
    ELSE add_keys(IF InSeq(rec[i][1], cols) THEN cols ELSE Append(cols, rec[i][1]),
                  rec, i + 1)

RECURSIVE frame_columns(_, _, _)
frame_columns(events, r, cols) ==
    IF r > Len(events) THEN cols
    ELSE frame_columns(events, r + 1, add_keys(cols, events[r], 1))

lookup(rec, key) ==
    IF \E i \in 1..Len(rec) : rec[i][1] = key
    THEN rec[CHOOSE i \in 1..Len(rec) : rec[i][1] = key][2]
    ELSE NA

\* line 113: pd.DataFrame(events) of a list of JSON objects; a record is the
\* sequence of its <<key, value>> pairs, a key a record lacks gives a null cell
DataFrame(events) ==
    LET cols == frame_columns(events, 1, <<>>) IN
    [cols |-> cols,
     rows |-> AsTuple([r \in 1..Len(events) |->
                 AsTuple([j \in 1..Len(cols) |-> lookup(events[r], cols[j])])])]

ColIndex(t, name) ==
    IF InSeq(name, t.cols)
    THEN CHOOSE i \in 1..Len(t.cols) :
             t.cols[i] = name /\ \A j \in 1..(i - 1) : t.cols[j] # name
    ELSE 0

HasCol(t, name) == InSeq(name, t.cols)

\* df[name] as the sequence of its cells
Col(t, name) == AsTuple([r \in 1..Len(t.rows) |-> t.rows[r][ColIndex(t, name)]])

\* df[name] = vals: replaces the column in place, or appends a new one
SetCol(t, name, vals) ==
    IF HasCol(t, name)
    THEN [cols |-> t.cols,
          rows |-> AsTuple([r \in 1..Len(t.rows) |->
                      [t.rows[r] EXCEPT ![ColIndex(t, name)] = vals[r]]])]
    ELSE [cols |-> Append(t.cols, name),
          rows |-> AsTuple([r \in 1..Len(t.rows) |-> Append(t.rows[r], vals[r])])]

AllNA(t) == AsTuple([r \in 1..Len(t.rows) |-> NA])

\* frame.loc[mask] / frame[mask]: the rows whose mask entry is TRUE, in order
RECURSIVE select_rows(_, _, _)
select_rows(rows, mask, i) ==
    IF i > Len(rows) THEN <<>>
    ELSE (IF mask[i] THEN <<rows[i]>> ELSE <<>>) \o select_rows(rows, mask, i + 1)

loc(t, mask) == [cols |-> t.cols, rows |-> select_rows(t.rows, mask, 1)]

----------------------------------------------------------------------------
(* Dates: a timestamp is a day number, months counted as 31 days *)

DayOrd(y, m, d) == (y * 12 + (m - 1)) * 31 + (d - 1)

\* .dt.to_period("M").dt.to_timestamp(): the first day of the month
month_start(day) == day - (day % 31)

Digit(c) == IndexIn(c, DigitChars) - 1

DaysIn(y, m) ==
    IF m = 2 THEN (IF y % 4 = 0 /\ (y % 100 # 0 \/ y % 400 = 0) THEN 29 ELSE 28)
    ELSE IF m \in {4, 6, 9, 11} THEN 30 ELSE 31

\* pd.to_datetime(s, errors="coerce") of one string: an ISO date YYYY-MM-DD
\* parses, any other text of the inputs below is not a date and gives NaT
parse_date(s) ==
    IF /\ Len(s) = 10
       /\ Ch(s, 5) = "-" /\ Ch(s, 8) = "-"
       /\ \A i \in {1, 2, 3, 4, 6, 7, 9, 10} : Digit(Ch(s, i)) >= 0
    THEN LET y == Digit(Ch(s, 1)) * 1000 + Digit(Ch(s, 2)) * 100
                  + Digit(Ch(s, 3)) * 10 + Digit(Ch(s, 4))
             m == Digit(Ch(s, 6)) * 10 + Digit(Ch(s, 7))
             d == Digit(Ch(s, 9)) * 10 + Digit(Ch(s, 10))
         IN IF m \in 1..12 /\ d >= 1 /\ d <= DaysIn(y, m)
            THEN Ts(DayOrd(y, m, d)) ELSE NA
    ELSE NA

\* pd.to_datetime(column, errors="coerce"), per cell
to_datetime(v) ==
    IF v[1] = "str" THEN parse_date(v[2])
    ELSE IF v[1] = "ts" THEN v
    ELSE NA

----------------------------------------------------------------------------
(* load_data_from_csv, lines 107-180 *)

\* .astype("string"), per cell
astype_string(v) ==
    IF v[1] = "num" THEN Str(IntToStr(v[2])) ELSE v

\* lines 141-150, one (new_col, candidates) pair
first_valid(t, found, r) ==
    IF \E k \in 1..Len(found) : ~isna(Col(t, found[k])[r])
    THEN Col(t, found[CHOOSE k \in 1..Len(found) :
                        /\ ~isna(Col(t, found[k])[r])
                        /\ \A j \in 1..(k - 1) : isna(Col(t, found[j])[r])])[r]
    ELSE NA

coalesce(t, new_col, candidates) ==
    LET found == SelectSeq(candidates, LAMBDA c : HasCol(t, c)) IN
    IF Len(found) > 0
    THEN SetCol(t, new_col,
                IF Len(found) > 1
                THEN [r \in 1..Len(t.rows) |-> first_valid(t, found, r)]
                ELSE Col(t, found[1]))
    ELSE IF ~HasCol(t, new_col) THEN SetCol(t, new_col, AllNA(t)) ELSE t

coalesce_columns(t) ==
    LET t1 == coalesce(t, "state", <<"state", "member_state", "state_code">>)
        t2 == coalesce(t1, "city", <<"city", "member_city">>)
        t3 == coalesce(t2, "zipcode", <<"zipcode", "zip", "member_zip">>)
    IN Last(<<t1, t2, t3>>)

\* lines 152-155
state_city_strings(t) ==
    LET t1 == IF HasCol(t, "state")
              THEN SetCol(t, "state", [r \in 1..Len(t.rows) |-> astype_string(Col(t, "state")[r])])
              ELSE t
        t2 == IF HasCol(t1, "city")
              THEN SetCol(t1, "city", [r \in 1..Len(t1.rows) |-> astype_string(Col(t1, "city")[r])])
              ELSE t1
    IN Last(<<t1, t2>>)

\* line 159 on one row of numeric cells: a null operand gives NaN (null), a zero
\* height gives NaN for a zero weight and an infinity otherwise
bmi_of(weight, height) ==
    IF isna(weight) \/ isna(height) THEN NA
    ELSE IF height[2] = 0 THEN (IF weight[2] = 0 THEN NA ELSE Inf)
    ELSE Float(weight[2], height[2] * height[2])

\* lines 157-159
derive_bmi(t) ==
    IF HasCol(t, "weight") /\ HasCol(t, "height")
    THEN SetCol(t, "bmi", [r \in 1..Len(t.rows) |->
                             bmi_of(Col(t, "weight")[r], Col(t, "height")[r])])
    ELSE t

StringColumns ==
    <<"event_type", "traffic_source", "utm_campaign", "device_type", "browser",
      "zipcode", "retention_status", "program_activity", "user_id",
      "program_destination">>

\* lines 161-164
RECURSIVE string_columns(_, _)
string_columns(t, i) ==
    IF i > Len(StringColumns) THEN t
    ELSE LET c == StringColumns[i]
             t1 == IF ~HasCol(t, c) THEN SetCol(t, c, AllNA(t)) ELSE t
             t2 == SetCol(t1, c, [r \in 1..Len(t1.rows) |-> astype_string(Col(t1, c)[r])])
         IN Last(<<t1, t2, string_columns(t2, i + 1)>>)

\* lines 166-168; only called when the event_date column exists
parse_dates(t) ==
    LET t1 == SetCol(t, "event_date",
                     [r \in 1..Len(t.rows) |-> to_datetime(Col(t, "event_date")[r])])
        t2 == IF HasCol(t1, "event_timestamp")
              THEN SetCol(t1, "event_timestamp",
                          [r \in 1..Len(t1.rows) |-> to_datetime(Col(t1, "event_timestamp")[r])])
              ELSE t1
    IN Last(<<t1, t2>>)

\* a null filled with the empty string
normalize_event_type_fill(v) ==
    IF isna(v) THEN Str("") ELSE Str(map_event_type(strip(v[2])))

\* lines 176-177 on one cell of the string column: a null stays null through
\* strip, upper, map and fillna (the fill value is null on the same row)
normalize_event_type(v) ==
    IF isna(v) THEN NA ELSE Str(map_event_type(strip(v[2])))

\* lines 169-178
event_types(t) ==
    IF HasCol(t, "event_type")
    THEN SetCol(t, "event_type",
                [r \in 1..Len(t.rows) |-> normalize_event_type(Col(t, "event_type")[r])])
    ELSE t

\* line 166 raises KeyError when the frame has no event_date column
raises_KeyError(t) == ~HasCol(t, "event_date")

\* lines 138-164: everything up to the event_date lookup
before_dates(t0) ==
    LET t1 == [cols |-> rename_columns(t0.cols), rows |-> t0.rows]
        t2 == coalesce_columns(t1)
        t3 == state_city_strings(t2)
        t4 == derive_bmi(t3)
        t5 == string_columns(t4, 1)
    IN Last(<<t1, t2, t3, t4, t5>>)

\* lines 121-180 on a non-empty frame on which line 166 does not raise
normalize(t0) ==
    LET t1 == before_dates(t0)
        t2 == parse_dates(t1)
        t3 == event_types(t2)
    IN Last(<<t1, t2, t3>>)

FetchFailures == {"network_error", "bad_status", "no_events_key"}

\* lines 109-116: the frame built from the payload, or the exception caught
fetch_failed(resp) == resp.kind \in FetchFailures

\* the result of the call of line 183: the table returned, whether st.error was
\* called at line 115 and whether an exception left the function
load_data_from_csv(resp) ==
    IF fetch_failed(resp)
    THEN [table |-> EmptyFrame, error |-> TRUE, raised |-> FALSE]
    ELSE LET frame == DataFrame(resp.events) IN
         IF empty(frame)
         THEN [table |-> frame, error |-> FALSE, raised |-> FALSE]
         ELSE IF raises_KeyError(before_dates(frame))
         THEN [table |-> Unset, error |-> FALSE, raised |-> TRUE]
         ELSE [table |-> normalize(frame), error |-> FALSE, raised |-> FALSE]

----------------------------------------------------------------------------
(* The dashboard script, lines 183-508 *)

\* pd.Timestamp.now() of lines 220-221, at day precision
Today == DayOrd(2024, 6, 30)
max_d == Today
\* pd.DateOffset(months=12): the same day twelve months earlier
min_d == Today - 12 * 31

\* lines 211-218 with fallback=None; the list ["All"] + sorted(vals) as the set
\* of values the select box offers
options_from(t, primary) ==
    LET vals == IF HasCol(t, primary)
                THEN {strip(Col(t, primary)[r][2]) :
                         r \in {q \in 1..Len(t.rows) : ~isna(Col(t, primary)[q])}}
                ELSE {}
    IN IF \E v \in vals : v # "" THEN {"All"} \cup vals ELSE {"All"}

\* any non-empty tuple taken as a range
date_window_any(d) ==
    IF Len(d) >= 1 THEN <<d[1], d[Len(d)]>> ELSE <<min_d, max_d>>

\* lines 227-231: dr is the tuple the date_input widget returns
date_window(d) ==
    IF Len(d) = 2 THEN <<d[1], d[2]>> ELSE <<min_d, max_d>>

\* lines 236-238; a null browser cell compares as not equal
base_mask(t, b) ==
    [r \in 1..Len(t.rows) |->
        IF b # "All" /\ HasCol(t, "browser")
        THEN Col(t, "browser")[r] = Str(b)
        ELSE TRUE]

\* Series.between(s, e) on one cell: inclusive, NaT is outside every window
between(v, s, e) == v[1] = "ts" /\ s <= v[2] /\ v[2] <= e

\* data.loc[base_mask & data["event_date"].between(s, e)] of lines 240 and 261
window_rows(t, mask, s, e) ==
    loc(t, [r \in 1..Len(t.rows) |->
               mask[r] /\ between(Col(t, "event_date")[r], s, e)])

EXPECTED == {"crossover", "link_click", "signup", "improvement"}

value_count(frame, name) ==
    Cardinality({r \in 1..Len(frame.rows) : Col(frame, "event_type")[r] = Str(name)})

\* the condition of line 246
exact_counting(frame) ==
    /\ HasCol(frame, "event_type")
    /\ \E r \in 1..Len(frame.rows) :
          /\ ~isna(Col(frame, "event_type")[r])
          /\ Col(frame, "event_type")[r][2] \in EXPECTED

\* lines 245-258; int(0.33*total) and int(0.05*total) truncate
compute_counts(frame) ==
    IF exact_counting(frame)
    THEN [crossover |-> value_count(frame, "crossover"),
          link_click |-> value_count(frame, "link_click"),
          signup |-> value_count(frame, "signup"),
          improve |-> value_count(frame, "improvement")]
    ELSE LET total == Len(frame.rows) IN
         [crossover |-> total,
          link_click |-> IF HasCol(frame, "traffic_source")
                         THEN Cardinality({r \in 1..total :
                                  ~isna(Col(frame, "traffic_source")[r])})
                         ELSE (33 * total) \div 100,
          signup |-> (5 * total) \div 100,
          improve |-> 0]

\* lines 260-262
counts_for_window(t, mask, s, e) == compute_counts(window_rows(t, mask, s, e))

\* line 267
kpi_conversion(counts) ==
    IF counts.crossover > 0
    THEN Float(counts.link_click * 100, counts.crossover)
    ELSE Num(0)

\* lines 297-309: period -> unique_ids, for the periods that have rows
get_unique_ids_by_month(frame, event_filter) ==
    LET f == IF event_filter # "" /\ HasCol(frame, "event_type")
             THEN loc(frame, [r \in 1..Len(frame.rows) |->
                        /\ ~isna(Col(frame, "event_type")[r])
                        /\ lower(Col(frame, "event_type")[r][2]) = lower(event_filter)])
             ELSE frame
         dated == {r \in 1..Len(f.rows) : ~isna(Col(f, "event_date")[r])}
         period(r) == month_start(Col(f, "event_date")[r][2])
         periods == {period(r) : r \in dated}
    IN [p \in periods |->
          IF ~HasCol(f, "user_id")
          THEN Cardinality({r \in dated : period(r) = p})
          ELSE Cardinality({Col(f, "user_id")[r] :
                   r \in {q \in dated : period(q) = p /\ ~isna(Col(f, "user_id")[q])}})]

\* line 330: outer merge on period, missing side filled with 0
merge_monthly(cm, lm) ==
    [p \in (DOMAIN cm) \cup (DOMAIN lm) |->
        [crossovers |-> IF p \in DOMAIN cm THEN cm[p] ELSE 0,
         clicks |-> IF p \in DOMAIN lm THEN lm[p] ELSE 0]]

\* line 355 on one month: float division, then fillna(0) replaces NaN only
monthly_rate(clicks, crossovers) ==
    IF crossovers = 0
    THEN (IF clicks = 0 THEN Num(0) ELSE Inf)
    ELSE Float(clicks * 100, crossovers)

\* lines 326-355
executive_overview(view) ==
    LET monthly_data == merge_monthly(get_unique_ids_by_month(view, "crossover"),
                                      get_unique_ids_by_month(view, "link_click"))
    IN [monthly_data |-> monthly_data,
        conversion_rate |-> [p \in DOMAIN monthly_data |->
            monthly_rate(monthly_data[p].clicks, monthly_data[p].crossovers)]]

\* rows of a frame whose lower-cased event_type is the given name (lines 399, 425)
of_event_type(frame, name) ==
    IF HasCol(frame, "event_type")
    THEN loc(frame, [r \in 1..Len(frame.rows) |->
                /\ ~isna(Col(frame, "event_type")[r])
                /\ lower(Col(frame, "event_type")[r][2]) = name])
    ELSE frame

\* groupby(key)["user_id"].nunique(): key value -> distinct non-null user ids;
\* rows with a null key are dropped
nunique_by(frame, key) ==
    LET keyed == {r \in 1..Len(frame.rows) : ~isna(Col(frame, key)[r])} IN
    [k \in {Col(frame, key)[r][2] : r \in keyed} |->
        Cardinality({Col(frame, "user_id")[r] :
            r \in {q \in keyed : Col(frame, key)[q][2] = k
                                  /\ ~isna(Col(frame, "user_id")[q])}})]

any_notna(frame, name) ==
    HasCol(frame, name) /\ \E r \in 1..Len(frame.rows) : ~isna(Col(frame, name)[r])

\* lines 388-409; the order of browser_data is not modelled
website_crossovers(view) ==
    [crossover_monthly |-> get_unique_ids_by_month(view, "crossover"),
     browser_data |-> IF any_notna(view, "browser")
                      THEN nunique_by(of_event_type(view, "crossover"), "browser")
                      ELSE ("Chrome" :> 45) @@ ("Safari" :> 30) @@ ("Edge" :> 15)
                           @@ ("Firefox" :> 10)]

\* lines 429-438: (period, destination) -> distinct user ids, pivoted with 0 for
\* the missing combinations and with the Virta and Kansas columns added
monthly_pivot(lc) ==
    LET keyed == {r \in 1..Len(lc.rows) :
                     /\ ~isna(Col(lc, "event_date")[r])
                     /\ ~isna(Col(lc, "program_destination")[r])}
        period(r) == month_start(Col(lc, "event_date")[r][2])
        dest(r) == Col(lc, "program_destination")[r][2]
    IN [p \in {period(r) : r \in keyed} |->
          [d \in {dest(r) : r \in keyed} \cup {"Virta", "Kansas"} |->
              Cardinality({Col(lc, "user_id")[r] :
                  r \in {q \in keyed : period(q) = p /\ dest(q) = d
                                        /\ ~isna(Col(lc, "user_id")[q])}})]]

\* lines 425-491
link_clicks(view) ==
    LET lc == of_event_type(view, "link_click") IN
    [trend |-> IF any_notna(lc, "program_destination")
               THEN monthly_pivot(lc)
               ELSE get_unique_ids_by_month(view, "link_click"),
     dest_data |-> IF any_notna(lc, "program_destination")
                   THEN nunique_by(lc, "program_destination")
                   ELSE ("Virta" :> 50) @@ ("Kansas" :> 35)]

----------------------------------------------------------------------------
(* Inputs of the script *)

E1 == << <<"event_type", Str("IN_BOUND_CROSSOVER")>>, <<"event_date", Str("2024-01-15")>>,
         <<"user_id", Str("u1")>>, <<"browser", Str("chrome")>>,
         <<"traffic_source", Str("google")>> >>
E2 == << <<"event_type", Str("care_program_clicked")>>, <<"event_date", Str("2024-01-20")>>,
         <<"user_id", Str("u1")>>, <<"browser", Str("chrome")>>,
         <<"program_destination", Str("Virta")>> >>
E3 == << <<"Event_Type", Str(" Care_Program_Clicked ")>>, <<"EVENT_DATE", Str("2024-02-10")>>,
         <<"user_ID", Str("u2")>>, <<"browser", Str("safari")>> >>
E4 == << <<"event_type", NA>>, <<"event_date", Str("2024-02-11")>>,
         <<"user_id", Str("u2")>>, <<"weight", Num(0)>>, <<"height", Num(0)>> >>
E5 == << <<"event_date", Str("2024-01-16")>>, <<"traffic_source", Str("email")>> >>
E6 == << <<"event_type", Str("IN_BOUND_CROSSOVER")>>, <<"event_date", Str("2024-01-17")>> >>
E7 == << <<"event_type", Str("page_view")>>, <<"event_date", Str("n/a")>>,
         <<"user_id", Str("u3")>>, <<"height", Num(2)>> >>
E8 == << <<"event_type", Str("signup")>>, <<"user_id", Str("u1")>> >>
E9 == << <<"event_type", Str("link_click")>>, <<"event_date", Str("2024-03-05")>>,
         <<"user_id", Str("u3")>>, <<"weight", Num(70)>>, <<"height", Num(0)>> >>
E10 == << <<"event_type", Str("crossover")>>, <<"event_date", Str("2022-05-01")>>,
          <<"user_id", NA>>, <<"weight", Num(70)>>, <<"height", Num(2)>>,
          <<"member_state", Str("KS")>> >>

\* the JSON records an events array is made of; a numeric field is null in a
\* row only next to rows that give it a number (a float column with NaN)
SampleEvents == {E1, E2, E3, E4, E5, E6, E7, E8, E9, E10}

Responses ==
    {[kind |-> k, events |-> <<>>] : k \in FetchFailures}
    \cup {[kind |-> "ok", events |-> ev] : ev \in SeqsUpTo(SampleEvents, MaxRows)}

\* the dates the widget is moved to, within its [min_value, max_value]
DateChoices == {DayOrd(2024, 2, 1), max_d}

\* what st.date_input returns for a range: no date, one date or two
DateInputs ==
    {<<>>} \cup {<<a>> : a \in DateChoices}
    \cup {<<a, b>> : a \in DateChoices, b \in DateChoices}

----------------------------------------------------------------------------
(* Inputs of the two string functions *)

\* keys of the JSON records: a DataFrame built from dicts has distinct labels
NameInputs == {"a", "A", " a", "a_2", "A_2", "b ", "B"}

Distinct(q) == \A i, j \in 1..Len(q) : i # j => q[i] # q[j]

ColumnLists == {q \in SeqsUpTo(NameInputs, MaxCols) : Distinct(q)}

EventTypeWords ==
    {"IN_BOUND_CROSSOVER", "CARE_PROGRAM_CLICKED", "IN_BOUND", "CROSSOVER",
     "LINK_CLICK", "SIGNUP", "IN_BOUND CROSSOVER", "PAGE_VIEW", ""}

\* the casings of a word: as written, lower, capitalised, alternating
RECURSIVE alternate(_, _)
alternate(s, up) ==
    IF s = "" THEN ""
    ELSE (IF up THEN upper_char(Ch(s, 1)) ELSE lower_char(Ch(s, 1)))
         \o alternate(SubSeq(s, 2, Len(s)), ~up)

Casings(w) ==
    {w, lower(w), alternate(w, TRUE), alternate(w, FALSE),
     IF w = "" THEN "" ELSE Ch(w, 1) \o lower(SubSeq(w, 2, Len(w)))}

RECURSIVE Pads(_)
Pads(n) ==
    IF n = 0 THEN {""}
    ELSE Pads(n - 1) \cup {p \o c : p \in {q \in Pads(n - 1) : Len(q) = n - 1},
                                   c \in {" ", "\t"}}

EventTypeInputs ==
    {l \o c \o r : l \in Pads(MaxPad), r \in Pads(MaxPad),
                   c \in UNION {Casings(w) : w \in EventTypeWords}}

----------------------------------------------------------------------------
(* Specification of one load cycle of the script *)

StringsIdle ==
    /\ raw_cols = <<>> /\ df_columns = <<>>
    /\ raw_et = "" /\ et = "" /\ normalized = ""

RunUnset ==
    /\ dr = Unset /\ browser = Unset /\ tab = Unset /\ window = Unset
    /\ df = Unset /\ cur_counts = Unset /\ conversion_pct = Unset /\ charts = Unset

ScriptIdle ==
    /\ response = Unset /\ data = Unset /\ errors = <<>>
    /\ RunUnset
    /\ renormalized = Unset

Init ==
    /\ pc = "start"
    /\ response \in Responses
    /\ data = Unset
    /\ errors = <<>>
    /\ RunUnset
    /\ StringsIdle
    /\ renormalized = Unset

\* line 183: data = load_data_from_csv()
Load ==
    /\ pc = "start"
    /\ LET res == load_data_from_csv(response) IN
       IF res.raised
       THEN /\ pc' = "raised"
            /\ UNCHANGED <<data, errors>>
       ELSE /\ pc' = "loaded"
            /\ data' = res.table
            /\ errors' = IF res.error
                         THEN Append(errors, "Error loading data from API")
                         ELSE errors
    /\ UNCHANGED <<renormalized, stringVars, response, runVars>>

\* the script going on without the test of line 185
CheckData_NoStop ==
    /\ pc = "loaded"
    /\ pc' = "filters"
    /\ UNCHANGED <<renormalized, stringVars, response, data, errors, runVars>>

\* lines 185-187
CheckData ==
    /\ pc = "loaded"
    /\ IF empty(data)
       THEN /\ errors' = Append(errors, "No data available from CSV file")
            /\ pc' = "stopped"
       ELSE /\ pc' = "filters"
            /\ UNCHANGED errors
    /\ UNCHANGED <<renormalized, stringVars, response, data, runVars>>

\* the filtered view bound to the name of the loaded table: line 240 written
\* as data = data.loc[...]
Filters_Rebind ==
    /\ pc = "filters"
    /\ \E d \in DateInputs, b \in options_from(data, "browser") :
          LET w == date_window(d)
              counts == counts_for_window(data, base_mask(data, b), w[1], w[2])
          IN /\ dr' = d
             /\ browser' = b
             /\ window' = w
             /\ df' = window_rows(data, base_mask(data, b), w[1], w[2])
             /\ data' = window_rows(data, base_mask(data, b), w[1], w[2])
             /\ cur_counts' = counts
             /\ conversion_pct' = kpi_conversion(counts)
    /\ pc' = "nav"
    /\ UNCHANGED <<renormalized, stringVars, response, errors, tab, charts>>

\* lines 220-267: the two widgets, the filtered view and the KPI counts. The
\* statements read data (lines 233-240, 261); the one write in place is to
\* base_mask (line 238), a series built at line 236, and df is a copy (line 240)
Filters ==
    /\ pc = "filters"
    /\ \E d \in DateInputs, b \in options_from(data, "browser") :
          LET w == date_window(d)
              counts == counts_for_window(data, base_mask(data, b), w[1], w[2])
          IN /\ dr' = d
             /\ browser' = b
             /\ window' = w
             /\ df' = window_rows(data, base_mask(data, b), w[1], w[2])
             /\ cur_counts' = counts
             /\ conversion_pct' = kpi_conversion(counts)
    /\ pc' = "nav"
    /\ UNCHANGED <<renormalized, stringVars, response, data, errors, tab, charts>>

\* lines 293 and 324-381
ExecutiveOverview ==
    /\ pc = "nav"
    /\ tab' = "Executive Overview"
    /\ charts' = executive_overview(df)
    /\ pc' = "done"
    /\ UNCHANGED <<renormalized, stringVars, response, data, errors, dr, browser, window,
                   df, cur_counts, conversion_pct>>

\* lines 293 and 383-418
WebsiteCrossovers ==
    /\ pc = "nav"
    /\ tab' = "Website Crossovers"
    /\ charts' = website_crossovers(df)
    /\ pc' = "done"
    /\ UNCHANGED <<renormalized, stringVars, response, data, errors, dr, browser, window,
                   df, cur_counts, conversion_pct>>

\* lines 293 and 420-508
LinkClicks ==
    /\ pc = "nav"
    /\ tab' = "Link Clicks"
    /\ charts' = link_clicks(df)
    /\ pc' = "done"
    /\ UNCHANGED <<renormalized, stringVars, response, data, errors, dr, browser, window,
                   df, cur_counts, conversion_pct>>

\* a widget interaction reruns the script from the top; line 106 caches the
\* loaded table, so the rerun resumes after the load with the same data
Rerun ==
    /\ pc = "done"
    /\ pc' = "loaded"
    /\ dr' = Unset /\ browser' = Unset /\ tab' = Unset /\ window' = Unset
    /\ df' = Unset /\ cur_counts' = Unset /\ conversion_pct' = Unset
    /\ charts' = Unset
    /\ UNCHANGED <<renormalized, stringVars, response, data, errors>>

Next ==
    \/ Load \/ CheckData \/ Filters
    \/ ExecutiveOverview \/ WebsiteCrossovers \/ LinkClicks \/ Rerun

Spec == Init /\ [][Next]_vars

----------------------------------------------------------------------------
(* Specification of the column renaming *)

InitCols ==
    /\ pc = "columns"
    /\ raw_cols \in ColumnLists
    /\ df_columns = raw_cols
    /\ raw_et = "" /\ et = "" /\ normalized = ""
    /\ ScriptIdle

RenameColumns ==
    /\ pc = "columns"
    /\ df_columns' = rename_columns(df_columns)
    /\ pc' = "renamed"
    /\ UNCHANGED <<renormalized, raw_cols, raw_et, et, normalized, response, data, errors, runVars>>

NextCols == RenameColumns

SpecCols == InitCols /\ [][NextCols]_vars

(* Specification of the event-type mapping of one value *)

InitEvt ==
    /\ pc = "event_type"
    /\ raw_et \in EventTypeInputs
    /\ et = raw_et
    /\ normalized = raw_et
    /\ raw_cols = <<>> /\ df_columns = <<>>
    /\ ScriptIdle

\* line 176
StripEventType ==
    /\ pc = "event_type"
    /\ et' = strip(et)
    /\ pc' = "stripped"
    /\ UNCHANGED <<renormalized, raw_cols, df_columns, raw_et, normalized, response, data, errors, runVars>>

\* lines 177-178
MapEventType ==
    /\ pc = "stripped"
    /\ normalized' = map_event_type(et)
    /\ pc' = "mapped"
    /\ UNCHANGED <<renormalized, raw_cols, df_columns, raw_et, et, response, data, errors, runVars>>

NextEvt == StripEventType \/ MapEventType

SpecEvt == InitEvt /\ [][NextEvt]_vars

(* Specification of the normalisation applied to its own result *)

\* a record whose keys differ only by case and surrounding blanks, in fields no
\* line of 141-178 reads
E11 == << <<"event_type", Str("signup")>>, <<"event_date", Str("2024-04-02")>>,
          <<"note", Str("x")>>, <<"Note", Str("y")>>, <<" note", Str("z")>> >>

NormEvents == SampleEvents \cup {E11}

NormResponses ==
    {[kind |-> "ok", events |-> ev] : ev \in SeqsUpTo(NormEvents, MaxRows)}

\* lines 118-180 on a frame that has an event_date column or is empty
normalize_frame(t) == IF empty(t) THEN t ELSE normalize(t)

InitNorm ==
    /\ pc = "start"
    /\ response \in NormResponses
    /\ data = Unset
    /\ errors = <<>>
    /\ RunUnset
    /\ StringsIdle
    /\ renormalized = Unset

\* lines 118-180 once more, on the table line 180 returned
Renormalize ==
    /\ pc = "loaded"
    /\ renormalized' = normalize_frame(data)
    /\ pc' = "renormalized"
    /\ UNCHANGED <<stringVars, response, data, errors, runVars>>

NextNorm == Load \/ Renormalize

SpecNorm == InitNorm /\ [][NextNorm]_vars

----------------------------------------------------------------------------
(* Properties *)

\* the script is past the load with a non-empty, normalised table
Normalized == pc \in {"filters", "nav", "done"}

NonSpace(s) == {i \in 1..Len(s) : Ch(s, i) \notin Whitespace}

\* s without its leading and trailing whitespace
Trimmed(s) ==
    IF NonSpace(s) = {} THEN ""
    ELSE SubSeq(s, CHOOSE i \in NonSpace(s) : \A j \in NonSpace(s) : i <= j,
                   CHOOSE i \in NonSpace(s) : \A j \in NonSpace(s) : i >= j)

SameIgnoringCase(a, b) ==
    /\ Len(a) = Len(b)
    /\ \A i \in 1..Len(a) : upper_char(Ch(a, i)) = upper_char(Ch(b, i))

IsLowerCased(a, b) ==
    /\ Len(a) = Len(b)
    /\ \A i \in 1..Len(a) : Ch(b, i) = lower_char(Ch(a, i))

\* C1: a raw event_type that is, trimmed and ignoring case, IN_BOUND_CROSSOVER maps
\* to crossover and one that is CARE_PROGRAM_CLICKED maps to link_click, whatever
\* its casing and surrounding whitespace; every other string maps to its trimmed,
\* lower-cased form.
C1_AliasOrPassthrough ==
    pc = "mapped" =>
        LET core == Trimmed(raw_et) IN
        /\ SameIgnoringCase(core, "IN_BOUND_CROSSOVER") => normalized = "crossover"
        /\ SameIgnoringCase(core, "CARE_PROGRAM_CLICKED") => normalized = "link_click"
        /\ (~SameIgnoringCase(core, "IN_BOUND_CROSSOVER")
            /\ ~SameIgnoringCase(core, "CARE_PROGRAM_CLICKED"))
              => IsLowerCased(core, normalized)

C1_Witness ==
    pc = "mapped" /\ raw_et = " In_bound_crossover\t" /\ normalized = "crossover"

\* C2: the names produced by lower_unique(make_unique(cols)) are lower-case,
\* trimmed and pairwise distinct, and the first occurrence of a name keeps the
\* bare name.
C2_LowerTrimmedDistinct ==
    pc = "renamed" =>
        /\ Len(df_columns) = Len(raw_cols)
        /\ \A i \in 1..Len(df_columns) :
              /\ lower(df_columns[i]) = df_columns[i]
              /\ strip(df_columns[i]) = df_columns[i]
        /\ \A i, j \in 1..Len(df_columns) : i # j => df_columns[i] # df_columns[j]
        /\ \A i \in 1..Len(raw_cols) :
              (\A j \in 1..(i - 1) : lower(strip(raw_cols[j])) # lower(strip(raw_cols[i])))
                 => df_columns[i] = lower(strip(raw_cols[i]))

\* the raw event_type cell of row r: the cell of the payload column that line 138
\* names event_type, null when no column gets that name
RawEventType(r) ==
    LET frame == DataFrame(response.events)
        names == rename_columns(frame.cols)
    IN IF InSeq("event_type", names)
       THEN frame.rows[r][CHOOSE i \in 1..Len(names) :
                names[i] = "event_type" /\ \A j \in 1..(i - 1) : names[j] # "event_type"]
       ELSE NA

\* C3 as claimed: after normalisation the event_type of every row is a non-null
\* string, the empty string when the raw value is missing or null.
C3_NeverNull ==
    Normalized =>
        \A r \in 1..Len(data.rows) :
            /\ Col(data, "event_type")[r][1] = "str"
            /\ isna(RawEventType(r)) => Col(data, "event_type")[r] = Str("")

\* C3 as amended: after normalisation the event_type of a row is a string when
\* its raw value is a string, and stays null when the raw value is missing or
\* null, also when the event_type column is absent and synthesised.
C3_NullStaysNull ==
    Normalized =>
        \A r \in 1..Len(data.rows) :
            IF isna(RawEventType(r))
            THEN isna(Col(data, "event_type")[r])
            ELSE Col(data, "event_type")[r][1] = "str"

C3_Witness ==
    /\ pc = "filters"
    /\ response.events = <<E5>>
    /\ isna(Col(data, "event_type")[1])

\* C4: the KPI conversion_pct and every monthly rate of the conversion trend equal
\* link clicks / crossovers * 100, and are 0 when the crossover count is 0, for
\* every link-click count; none is NaN or infinite.
C4_ConversionRates ==
    /\ pc \in {"nav", "done"} =>
          IF cur_counts.crossover = 0
          THEN conversion_pct = Num(0)
          ELSE conversion_pct = Float(cur_counts.link_click * 100, cur_counts.crossover)
    /\ (pc = "done" /\ tab = "Executive Overview") =>
          \A p \in DOMAIN charts.monthly_data :
              LET m == charts.monthly_data[p] IN
              IF m.crossovers = 0
              THEN charts.conversion_rate[p] = Num(0)
              ELSE charts.conversion_rate[p] = Float(m.clicks * 100, m.crossovers)

\* C5: with weight and height present, the bmi of a row is null when height is
\* zero or either input is null, and weight / height^2 otherwise; the derivation
\* does not raise.
C5_BmiNullOnZeroHeight ==
    (Normalized /\ HasCol(data, "weight") /\ HasCol(data, "height")) =>
        /\ HasCol(data, "bmi")
        /\ \A r \in 1..Len(data.rows) :
              LET w == Col(data, "weight")[r]
                  h == Col(data, "height")[r]
              IN IF isna(w) \/ isna(h) \/ h = Num(0)
                 THEN isna(Col(data, "bmi")[r])
                 ELSE Col(data, "bmi")[r] = Float(w[2], h[2] * h[2])

\* nothing of lines 220-508 has run
NothingComputed ==
    /\ dr = Unset /\ browser = Unset /\ tab = Unset /\ window = Unset
    /\ df = Unset /\ cur_counts = Unset /\ conversion_pct = Unset /\ charts = Unset

C6_State ==
    /\ (pc # "start" /\ fetch_failed(response)) =>
          /\ pc \in {"loaded", "stopped"}
          /\ empty(data)
          /\ errors[1] = "Error loading data from API"
    /\ (pc \in {"loaded", "stopped"} /\ empty(data)) => NothingComputed
    /\ Normalized => ~empty(data)
    /\ pc = "stopped" =>
          /\ empty(data)
          /\ errors[Len(errors)] = "No data available from CSV file"

C6_Step ==
    /\ (pc = "loaded" /\ empty(data)) => pc' = "stopped"
    /\ pc = "stopped" => UNCHANGED vars

\* C6: a failed fetch or payload parse gives an empty table and an error message,
\* not an exception; from an empty loaded table the only step of the run is the
\* no-data stop, where it stays, and no filter, count or chart is ever computed.
C6_EmptyTableStops == []C6_State /\ [][C6_Step]_vars

C6_Witness ==
    /\ pc = "stopped"
    /\ response.kind = "network_error"
    /\ errors = <<"Error loading data from API", "No data available from CSV file">>

ExpectedColumns ==
    {"event_type", "event_date", "user_id", "browser", "device_type",
     "traffic_source", "utm_campaign", "zipcode", "retention_status",
     "program_activity", "program_destination", "state", "city"}

\* C7: for every non-empty set of raw records, whichever fields they lack,
\* normalisation completes without raising and the table has every expected
\* canonical column.
C7_NeverFatal ==
    (pc # "start" /\ response.kind = "ok" /\ ~empty(DataFrame(response.events))) =>
        /\ pc # "raised"
        /\ \A c \in ExpectedColumns : HasCol(data, c)

\* the rows of data inside the window, for the selected browser
RowsInWindow ==
    {r \in 1..Len(data.rows) :
        /\ browser = "All" \/ Col(data, "browser")[r] = Str(browser)
        /\ Col(data, "event_date")[r][1] = "ts"
        /\ window[1] <= Col(data, "event_date")[r][2]
        /\ Col(data, "event_date")[r][2] <= window[2]}

\* C8 as claimed: a single endpoint, or a pair whose start is after its end, gives
\* the default window (min_d, max_d); a pair is used only when start <= end.
C8_InvalidRangeFallsBack ==
    pc \in {"nav", "done"} =>
        /\ window = IF Len(dr) = 2 /\ dr[1] <= dr[2]
                    THEN <<dr[1], dr[2]>> ELSE <<min_d, max_d>>
        /\ Len(df.rows) = Cardinality(RowsInWindow)

\* C8 as amended: an input that is not a pair (no date, a single endpoint) gives
\* the default window (min_d, max_d); every pair is used as given, a pair whose
\* start is after its end included, and that one selects no row.
C8_IncompleteRangeFallsBack ==
    pc \in {"nav", "done"} =>
        /\ window = IF Len(dr) = 2 THEN <<dr[1], dr[2]>> ELSE <<min_d, max_d>>
        /\ Len(df.rows) = Cardinality(RowsInWindow)
        /\ (Len(dr) = 2 /\ dr[1] > dr[2]) => Len(df.rows) = 0

C8_Witness ==
    /\ pc = "nav"
    /\ Len(dr) = 1
    /\ window = <<min_d, max_d>>
    /\ Len(df.rows) > 0

\* the rows of the view whose event type is crossover, by month
CrossoverRows(p) ==
    {r \in 1..Len(df.rows) :
        /\ Col(df, "event_type")[r] = Str("crossover")
        /\ month_start(Col(df, "event_date")[r][2]) = p}

NoUserIdField ==
    ~InSeq("user_id", rename_columns(DataFrame(response.events).cols))

\* C9: get_unique_ids_by_month gives, for each month with rows of the requested
\* type, the number of distinct user_id values of that month, and the number of
\* rows of that month when the ingested records carry no user_id field.
C9_UniqueIdsOrRowCount ==
    (pc = "done" /\ tab = "Website Crossovers") =>
        LET monthly == charts.crossover_monthly IN
        /\ DOMAIN monthly = {p \in {month_start(Col(df, "event_date")[r][2]) :
                                       r \in 1..Len(df.rows)} : CrossoverRows(p) # {}}
        /\ \A p \in DOMAIN monthly :
              monthly[p] = IF NoUserIdField
                           THEN Cardinality(CrossoverRows(p))
                           ELSE Cardinality({Col(df, "user_id")[r] :
                                    r \in {q \in CrossoverRows(p) :
                                              ~isna(Col(df, "user_id")[q])}})

\* the views of the loadable payloads, over the default window and every browser
LoadableEvents ==
    {ev \in SeqsUpTo(SampleEvents, MaxRows) :
        /\ ~empty(DataFrame(ev))
        /\ ~raises_KeyError(before_dates(DataFrame(ev)))}

\* C10: the result of compute_counts tells which path produced it: no view counted
\* on the heuristic path has the result of a view counted on the exact path.
C10_PathDistinguishable ==
    pc \in {"nav", "done"} =>
        \A ev \in LoadableEvents :
            LET table == normalize(DataFrame(ev))
                other == window_rows(table, base_mask(table, "All"), min_d, max_d)
            IN
            exact_counting(other) # exact_counting(df)
                => compute_counts(other) # cur_counts

\* C11: normalisation is idempotent: applying the normalisation steps of
\* load_data_from_csv to the table they produced gives the same column names and
\* the same values as applying them once.
C11_Idempotent ==
    pc = "renormalized" =>
        /\ renormalized.cols = data.cols
        /\ renormalized.rows = data.rows

\* C12: after any sequence of interactions (date range, browser, tab) the table
\* data has the rows, columns and values it had right after normalisation:
\* building the view, counts_for_window, get_unique_ids_by_month and the tabs'
\* breakdowns leave it unchanged.
C12_DataUnchanged ==
    [][pc # "start" => data' = data]_vars

C12_Witness ==
    /\ pc = "done"
    /\ tab = "Link Clicks"
    /\ browser # "All"
    /\ dr = <<DayOrd(2024, 2, 1), max_d>>
    /\ Len(df.rows) > 0
    /\ Len(df.rows) < Len(data.rows)
    /\ data = normalize(DataFrame(response.events))

====
